---- MODULE Spec2Model ----
(***************************************************************************)
(* Four independent command-line utilities for influenza sequence data:    *)
(*   flu_parse_header.py  (Header Splitter)                                *)
(*   seqid_validate.py    (Identifier Cross-Referencer)                    *)
(*   trim_fasta.py        (Sequence Trimmer)                               *)
(*   rmdup.py             (Duplicate Remover)                              *)
(* Each utility is one run of a script; each has its own specification     *)
(* (SpecHS, SpecXR, SpecTR, SpecRD).  Text is a sequence of one-character  *)
(* strings, so that searching, splitting, stripping and slicing are        *)
(* computed on it.                                                         *)
(***************************************************************************)
EXTENDS Integers, Sequences, FiniteSets, TLC

VARIABLES
    \* ---- flu_parse_header.py
    hs_pc,              \* position of main(): "reading" | "written" | "raised"
    original_headers,   \* extract_and_split_headers: list of stripped headers
    split_headers,      \* extract_and_split_headers: list of field lists
    original_header,    \* loop local: the header of the last header line
    match,              \* loop local: result of re.search on original_header
    column_names,       \* args.column_names as given by the user
    tsv,                \* rows written to the output file, header row first
    hs_exc              \* exception that ended main(), "" when none

VARIABLES
    \* ---- seqid_validate.py
    xr_pc,              \* position of compare_ids()
    records_read,       \* records SeqIO.parse has yielded so far
    seqid_segment,      \* parse_fasta loop local: record.id of the last record
    seqid,              \* parse_fasta loop local: the truncated identifier
    fasta_ids,          \* set of sequence-file identifiers
    metadata_df,        \* the metadata table: rows in file order
    metadata_ids,       \* set of the table's seqid values
    output_metadata_file, \* -o given
    output_dir,         \* -d given
    printed,            \* the numbers printed, in print order
    filtered_metadata,  \* rows written to the -o file
    dir_files,          \* the files written under -d: name -> identifiers
    xr_exc              \* exception that ended the run, "" when none

VARIABLES
    \* ---- trim_fasta.py
    tr_pc,              \* position of the script
    input_exists,       \* whether the input path is a file
    start_position,     \* -s
    stop_position,      \* -e
    records,            \* records SeqIO.parse has yielded so far
    trimmed_records,    \* the list built by the loop
    out_file,           \* the output path: untouched, or the records in it
    tr_msg              \* what the run printed last

VARIABLES
    \* ---- rmdup.py
    rd_pc,              \* position of the script
    input_kind,         \* what input_path is: "file" | "dir" | "none"
    tree,               \* files under input_path (or input_path itself)
    cur_dir,            \* directory os.walk is at
    visited,            \* files of the walk the inner loop has been through
    calls,              \* external calls made, in order, with their exit code
    out_dir_exists,     \* os.makedirs(args.output) has run
    out_files,          \* files in the output directory
    rd_msg              \* what the run printed

hsVars == <<hs_pc, original_headers, split_headers, original_header, match,
            column_names, tsv, hs_exc>>

xrVars == <<xr_pc, records_read, seqid_segment, seqid, fasta_ids, metadata_df,
            metadata_ids, output_metadata_file, output_dir, printed,
            filtered_metadata, dir_files, xr_exc>>

trVars == <<tr_pc, input_exists, start_position, stop_position, records,
            trimmed_records, out_file, tr_msg>>

rdVars == <<rd_pc, input_kind, tree, cur_dir, visited, calls, out_dir_exists,
            out_files, rd_msg>>

vars == <<hsVars, xrVars, trVars, rdVars>>

\* What a run of one script leaves alone: the state of the other three.
otherHS == <<xrVars, trVars, rdVars>>

otherXR == <<hsVars, trVars, rdVars>>

otherTR == <<hsVars, xrVars, rdVars>>

otherRD == <<hsVars, xrVars, trVars>>

\* ------------------------------------------------------------------ bounds
\* Header lines read from one input file.
MaxHeaders == 2
\* Characters of header text (after the marker) in one input file.
MaxHeaderChars == 6
\* Values given to --column-names.
MaxNames == 2
\* Records in one FASTA file.
MaxRecords == 2
\* Characters of a record identifier.
MaxIdLen == 2
\* Rows of the metadata table.
MaxRows == 3
\* Residues of one record.
MaxSeqLen == 2
\* Largest coordinate given to -s / -e.
MaxCoord == 3
\* Directories os.walk goes through.
MaxDirs == 2
\* Files under the input directory.
MaxFiles == 2

\* ------------------------------------------------------- text helpers
Min(S) == CHOOSE x \in S : \A y \in S : x <= y

Max(S) == CHOOSE x \in S : \A y \in S : x >= y

\* All texts over alphabet A of length at most n.
Str(A, n) == UNION {[1..k -> A] : k \in 0..n}

RECURSIVE SumLen(_)
SumLen(ss) == IF ss = <<>> THEN 0 ELSE Len(Head(ss)) + SumLen(Tail(ss))

\* str.strip(): leading and trailing whitespace removed.
Whitespace == {" ", "\n"}

RECURSIVE LStrip(_)
LStrip(s) ==
    IF s # <<>> /\ Head(s) \in Whitespace THEN LStrip(Tail(s)) ELSE s

RECURSIVE RStrip(_)
RStrip(s) ==
    IF s # <<>> /\ s[Len(s)] \in Whitespace
    THEN RStrip(SubSeq(s, 1, Len(s) - 1))
    ELSE s

Strip(s) == RStrip(LStrip(s))

\* str.split(sep) for a one-character separator: always at least one field.
RECURSIVE Split(_, _)
Split(s, sep) ==
    IF \A i \in 1..Len(s) : s[i] # sep
    THEN <<s>>
    ELSE LET i == Min({k \in 1..Len(s) : s[k] = sep})
         IN  <<SubSeq(s, 1, i - 1)>> \o Split(SubSeq(s, i + 1, Len(s)), sep)

\* ---------------------------------------------------- flu_parse_header.py
\* Characters of a header text in the model.
HeaderAlphabet == {"|", "/", "a"}

\* A header line of the file: the marker, the text, the line terminator.
HeaderLine(text) == <<">">> \o text \o <<"\n">>

\* Lines that do not start with the marker (sequence data, blank lines).
OtherLines == {<<"\n">>, <<"a", "\n">>, <<"a", ">", "\n">>}

NoMatch == [found |-> FALSE, group1 |-> <<>>]

\* Positions in s at which the pattern \|([^|]+)\| matches: a '|', one or
\* more characters other than '|', then a '|'.
MatchStarts(s) ==
    {i \in 1..Len(s) :
        /\ s[i] = "|"
        /\ \E j \in (i + 2)..Len(s) :
              /\ s[j] = "|"
              /\ \A k \in (i + 1)..(j - 1) : s[k] # "|"}

\* re.search(r'\|([^|]+)\|', s): the leftmost match and its group 1.
ReSearch(s) ==
    IF MatchStarts(s) = {}
    THEN NoMatch
    ELSE LET i == Min(MatchStarts(s))
             j == Min({k \in (i + 1)..Len(s) : s[k] = "|"})
         IN  [found |-> TRUE, group1 |-> SubSeq(s, i + 1, j - 1)]

\* Python's zip: pairs up to the shorter of the two lists.
Zip(a, b) == [i \in 1..Min({Len(a), Len(b)}) |-> <<a[i], b[i]>>]

\* [''] * n
Blanks(n) == [i \in 1..n |-> <<>>]

\* f'Part{i}'
PartName(i) == "Part" \o ToString(i)

\* --column-names values: the first n of the documented field names.
FieldNames == <<"Type", "Host", "Location", "Strain", "Year">>

ColumnNameArgs == {SubSeq(FieldNames, 1, n) : n \in 1..MaxNames}

\* max(len(header) for header in split_headers), for a non-empty list.
MaxColumns(sh) == Max({Len(sh[i]) : i \in 1..Len(sh)})

\* Faulty variant of ExtendedNames: the fillers are numbered from
\* len(column_names) instead of len(column_names) + 1.
ExtendedNamesFromLen(names, max_columns) ==
    IF Len(names) < max_columns
    THEN names \o [k \in 1..(max_columns - Len(names)) |-> PartName(Len(names) + k - 1)]
    ELSE names

\* write_to_tsv, lines 53-54: the name list extended with filler names.
ExtendedNames(names, max_columns) ==
    IF Len(names) < max_columns
    THEN names \o [k \in 1..(max_columns - Len(names)) |-> PartName(Len(names) + k)]
    ELSE names

\* write_to_tsv, line 57: the header row.
HeaderRow(names, max_columns) ==
    <<"OriginalHeader">>
        \o SubSeq(ExtendedNames(names, max_columns), 1,
                  Min({max_columns, Len(ExtendedNames(names, max_columns))}))

\* write_to_tsv, lines 62-63: one row per pair of the zip.
DataRowsWritten(oh, sh) ==
    LET z == Zip(oh, sh)
        m == MaxColumns(sh)
    IN  [i \in 1..Len(z) |-> <<z[i][1]>> \o z[i][2] \o Blanks(m - Len(z[i][2]))]

InitHS ==
    /\ hs_pc = "reading"
    /\ original_headers = <<>>
    /\ split_headers = <<>>
    /\ original_header = <<>>
    /\ match = NoMatch
    /\ column_names \in ColumnNameArgs
    /\ tsv = <<>>
    /\ hs_exc = ""

\* extract_and_split_headers, loop body for a line that starts with '>'.
ReadHeaderLine ==
    /\ UNCHANGED otherHS
    /\ hs_pc = "reading"
    /\ Len(original_headers) < MaxHeaders
    /\ \E text \in Str(HeaderAlphabet, MaxHeaderChars - SumLen(original_headers)) :
          LET line == HeaderLine(text)
              oh   == Strip(Tail(line))
              m    == ReSearch(oh)
          IN  /\ Head(line) = ">"
              /\ original_header' = oh
              /\ original_headers' = Append(original_headers, oh)
              /\ match' = m
              /\ split_headers' =
                    IF m.found
                    THEN Append(split_headers, Split(m.group1, "/"))
                    ELSE split_headers
    /\ UNCHANGED <<hs_pc, column_names, tsv, hs_exc>>

\* extract_and_split_headers, loop body for any other line: nothing happens.
ReadOtherLine ==
    /\ UNCHANGED otherHS
    /\ hs_pc = "reading"
    /\ \E line \in OtherLines : Head(line) # ">"
    /\ UNCHANGED hsVars

\* End of file: extract_and_split_headers returns and main calls
\* write_to_tsv, which raises ValueError from max() of an empty list.
WriteToTsv ==
    /\ UNCHANGED otherHS
    /\ hs_pc = "reading"
    /\ IF split_headers = <<>>
       THEN /\ hs_pc' = "raised"
            /\ hs_exc' = "ValueError"
            /\ tsv' = tsv
       ELSE /\ hs_pc' = "written"
            /\ hs_exc' = hs_exc
            /\ tsv' = <<HeaderRow(column_names, MaxColumns(split_headers))>>
                         \o DataRowsWritten(original_headers, split_headers)
    /\ UNCHANGED <<original_headers, split_headers, original_header, match,
                   column_names>>

NextHS == ReadHeaderLine \/ ReadOtherLine \/ WriteToTsv

\* ------------------------------------------------------ seqid_validate.py
\* Characters of a record identifier in the model.
IdAlphabet == {"A", "B", "_"}

\* record.id values of the sequence file.
RecordIds == Str(IdAlphabet, MaxIdLen)

\* Values of the seqid column.
MetaSeqids == {<<"A">>, <<"B">>, <<"A", "B">>}

\* A metadata table of n rows: row i holds its pandas index and its seqid.
Tables(n) ==
    {[i \in 1..n |-> [index |-> i - 1, seqid |-> f[i]]] : f \in [1..n -> MetaSeqids]}

\* parse_fasta, line 15: seqid_segment.split('_')[0]
SeqidOf(id) == Split(id, "_")[1]

\* parse_metadata, line 21: set(metadata_df['seqid'])
SeqidColumn(df) == {df[i].seqid : i \in 1..Len(df)}

FirstOfSeqid(df, i) == \A j \in 1..(i - 1) : df[j].seqid # df[i].seqid

\* Faulty variant of Counts: the two differences change places.
CountsSwapped(f, m) ==
    <<Cardinality(f), Cardinality(m), Cardinality(f \cap m),
      Cardinality(m \ f), Cardinality(f \ m)>>

\* compare_ids, lines 55-75: the five numbers, in print order.
Counts(f, m) ==
    <<Cardinality(f), Cardinality(m), Cardinality(f \cap m),
      Cardinality(f \ m), Cardinality(m \ f)>>

\* Faulty variant of FilterRows: of the rows of one seqid only the first is
\* kept.
RECURSIVE FilterRowsDedup(_, _)
FilterRowsDedup(df, ids) ==
    IF df = <<>> THEN <<>>
    ELSE LET n    == Len(df)
             rest == FilterRowsDedup(SubSeq(df, 1, n - 1), ids)
         IN  IF df[n].seqid \in ids /\ FirstOfSeqid(df, n)
             THEN Append(rest, df[n])
             ELSE rest

\* compare_ids, line 85: metadata_df[metadata_df['seqid'].isin(fasta_ids)]
RECURSIVE FilterRows(_, _)
FilterRows(df, ids) ==
    IF df = <<>> THEN <<>>
    ELSE LET rest == FilterRows(Tail(df), ids)
         IN  IF Head(df).seqid \in ids THEN <<Head(df)>> \o rest ELSE rest

\* write_files: the five single-column tables.  The row order of each is the
\* iteration order of a set, which is not specified; a file is its row set.
FilesWritten(f, m) ==
    [fasta_ids_tsv     |-> f,
     metadata_ids_tsv  |-> m,
     intersect_tsv     |-> f \cap m,
     fasta_only_tsv    |-> f \ m,
     metadata_only_tsv |-> m \ f]

NoFiles == [written |-> FALSE, files |-> FilesWritten({}, {})]

InitXR ==
    /\ xr_pc = "parse_fasta"
    /\ records_read = 0
    /\ seqid_segment = <<>>
    /\ seqid = <<>>
    /\ fasta_ids = {}
    /\ metadata_df = <<>>
    /\ metadata_ids = {}
    /\ output_metadata_file \in BOOLEAN
    /\ output_dir \in BOOLEAN
    /\ printed = <<>>
    /\ filtered_metadata = [written |-> FALSE, rows |-> <<>>]
    /\ dir_files = NoFiles
    /\ xr_exc = ""

\* parse_fasta, loop body: one record of the sequence file.
ParseFastaRecord ==
    /\ UNCHANGED otherXR
    /\ xr_pc = "parse_fasta"
    /\ records_read < MaxRecords
    /\ \E id \in RecordIds :
          /\ seqid_segment' = id
          /\ seqid' = SeqidOf(id)
          /\ fasta_ids' = fasta_ids \cup {SeqidOf(id)}
    /\ records_read' = records_read + 1
    /\ UNCHANGED <<xr_pc, metadata_df, metadata_ids, output_metadata_file,
                   output_dir, printed, filtered_metadata, dir_files, xr_exc>>

\* parse_fasta returns; parse_metadata reads the table.
ParseMetadata ==
    /\ UNCHANGED otherXR
    /\ xr_pc = "parse_fasta"
    /\ \E n \in 0..MaxRows : \E df \in Tables(n) :
          /\ metadata_df' = df
          /\ metadata_ids' = SeqidColumn(df)
    /\ xr_pc' = "compare"
    /\ seqid_segment' = <<>>
    /\ seqid' = <<>>
    /\ UNCHANGED <<records_read, fasta_ids, output_metadata_file, output_dir,
                   printed, filtered_metadata, dir_files, xr_exc>>

\* parse_metadata on a table without a seqid column: KeyError, not caught.
ParseMetadataNoColumn ==
    /\ UNCHANGED otherXR
    /\ xr_pc = "parse_fasta"
    /\ xr_pc' = "raised"
    /\ xr_exc' = "KeyError"
    /\ seqid_segment' = <<>>
    /\ seqid' = <<>>
    /\ UNCHANGED <<records_read, fasta_ids, metadata_df, metadata_ids,
                   output_metadata_file, output_dir, printed,
                   filtered_metadata, dir_files>>

\* compare_ids, lines 54-75: the five counts are printed.
ReportCounts ==
    /\ UNCHANGED otherXR
    /\ xr_pc = "compare"
    /\ printed' = Counts(fasta_ids, metadata_ids)
    /\ xr_pc' = "counted"
    /\ UNCHANGED <<records_read, seqid_segment, seqid, fasta_ids, metadata_df,
                   metadata_ids, output_metadata_file, output_dir,
                   filtered_metadata, dir_files, xr_exc>>

\* compare_ids, lines 84-98: the optional outputs, then the run ends.
WriteOutputs ==
    /\ UNCHANGED otherXR
    /\ xr_pc = "counted"
    /\ filtered_metadata' =
          IF output_metadata_file
          THEN [written |-> TRUE, rows |-> FilterRows(metadata_df, fasta_ids)]
          ELSE filtered_metadata
    /\ dir_files' =
          IF output_dir
          THEN [written |-> TRUE, files |-> FilesWritten(fasta_ids, metadata_ids)]
          ELSE dir_files
    /\ xr_pc' = "done"
    /\ UNCHANGED <<records_read, seqid_segment, seqid, fasta_ids, metadata_df,
                   metadata_ids, output_metadata_file, output_dir, printed,
                   xr_exc>>

NextXR ==
    \/ ParseFastaRecord
    \/ ParseMetadata
    \/ ParseMetadataNoColumn
    \/ ReportCounts
    \/ WriteOutputs

\* ---------------------------------------------------------- trim_fasta.py
\* Residues in the model.
Residues == {"A", "C"}

\* Values of -s and -e (argparse type=int takes negative numbers too).
Coords == (-1)..MaxCoord

\* The output path before open(output_file, 'w') touches it.
Untouched == [touched |-> FALSE, recs |-> <<>>]

\* A slice bound as Python normalises it for a sequence of length n.
SliceIndex(i, n) ==
    IF i < 0 THEN (IF i + n < 0 THEN 0 ELSE i + n)
    ELSE (IF i > n THEN n ELSE i)

\* Faulty variant of PySlice: the stop position is included.
PySliceInclusive(s, start, stop) ==
    SubSeq(s, SliceIndex(start, Len(s)) + 1, SliceIndex(stop + 1, Len(s)))

\* s[start:stop]
PySlice(s, start, stop) ==
    SubSeq(s, SliceIndex(start, Len(s)) + 1, SliceIndex(stop, Len(s)))

\* record[start:stop]: the same record with its residues sliced.
TrimRecord(rec, start, stop) ==
    [id |-> rec.id, seq |-> PySlice(rec.seq, start, stop)]

InitTR ==
    /\ tr_pc = "main"
    /\ input_exists \in BOOLEAN
    /\ start_position \in Coords
    /\ stop_position \in Coords
    /\ records = <<>>
    /\ trimmed_records = <<>>
    /\ out_file = Untouched
    /\ tr_msg = ""

\* __main__, lines 49-50: the input path is not a file.
MainInputMissing ==
    /\ UNCHANGED otherTR
    /\ tr_pc = "main"
    /\ ~input_exists
    /\ tr_pc' = "failed"
    /\ tr_msg' = "Error: Input file not found."
    /\ UNCHANGED <<input_exists, start_position, stop_position, records,
                   trimmed_records, out_file>>

\* trim_fasta, line 16: the input file is opened.
OpenInput ==
    /\ UNCHANGED otherTR
    /\ tr_pc = "main"
    /\ input_exists
    /\ tr_pc' = "parsing"
    /\ UNCHANGED <<input_exists, start_position, stop_position, records,
                   trimmed_records, out_file, tr_msg>>

\* trim_fasta, line 16: open() raises (the file is gone, or unreadable).
OpenInputRaises ==
    /\ UNCHANGED otherTR
    /\ tr_pc = "main"
    /\ input_exists
    /\ tr_pc' = "failed"
    /\ tr_msg' \in {"Error: Input file not found.", "Error: exception"}
    /\ UNCHANGED <<input_exists, start_position, stop_position, records,
                   trimmed_records, out_file>>

\* trim_fasta, lines 20-22: one record is parsed and trimmed.
ParseRecord ==
    /\ UNCHANGED otherTR
    /\ tr_pc = "parsing"
    /\ Len(records) < MaxRecords
    /\ \E s \in Str(Residues, MaxSeqLen) :
          LET rec == [id |-> Len(records) + 1, seq |-> s]
          IN  /\ records' = Append(records, rec)
              /\ trimmed_records' =
                    Append(trimmed_records,
                           TrimRecord(rec, start_position, stop_position))
    /\ UNCHANGED <<tr_pc, input_exists, start_position, stop_position,
                   out_file, tr_msg>>

\* trim_fasta, line 20: the parser raises on a malformed record.
ParseRaises ==
    /\ UNCHANGED otherTR
    /\ tr_pc = "parsing"
    /\ tr_pc' = "failed"
    /\ tr_msg' = "Error: exception"
    /\ UNCHANGED <<input_exists, start_position, stop_position, records,
                   trimmed_records, out_file>>

\* trim_fasta, line 24: end of input; open(output_file, 'w') truncates.
OpenOutput ==
    /\ UNCHANGED otherTR
    /\ tr_pc = "parsing"
    /\ out_file' = [touched |-> TRUE, recs |-> <<>>]
    /\ tr_pc' = "writing"
    /\ UNCHANGED <<input_exists, start_position, stop_position, records,
                   trimmed_records, tr_msg>>

\* trim_fasta, line 24: open(output_file, 'w') raises; nothing is touched.
OpenOutputRaises ==
    /\ UNCHANGED otherTR
    /\ tr_pc = "parsing"
    /\ tr_pc' = "failed"
    /\ tr_msg' \in {"Error: Input file not found.", "Error: exception"}
    /\ UNCHANGED <<input_exists, start_position, stop_position, records,
                   trimmed_records, out_file>>

\* trim_fasta, line 25: SeqIO.write writes the next record.
WriteRecord ==
    /\ UNCHANGED otherTR
    /\ tr_pc = "writing"
    /\ Len(out_file.recs) < Len(trimmed_records)
    /\ out_file' = [out_file EXCEPT
                      !.recs = Append(@, trimmed_records[Len(@) + 1])]
    /\ UNCHANGED <<tr_pc, input_exists, start_position, stop_position,
                   records, trimmed_records, tr_msg>>

\* trim_fasta, line 25: a write raises (disk full, I/O error); the handler
\* prints the message and leaves the file as it is.
WriteRaises ==
    /\ UNCHANGED otherTR
    /\ tr_pc = "writing"
    /\ tr_pc' = "failed"
    /\ tr_msg' = "Error: exception"
    /\ UNCHANGED <<input_exists, start_position, stop_position, records,
                   trimmed_records, out_file>>

\* trim_fasta, lines 27-33: everything is written; the summary is printed.
FinishTrim ==
    /\ UNCHANGED otherTR
    /\ tr_pc = "writing"
    /\ Len(out_file.recs) = Len(trimmed_records)
    /\ tr_pc' = "done"
    /\ tr_msg' = "Trimming completed successfully!"
    /\ UNCHANGED <<input_exists, start_position, stop_position, records,
                   trimmed_records, out_file>>

NextTR ==
    \/ MainInputMissing
    \/ OpenInput
    \/ OpenInputRaises
    \/ ParseRecord
    \/ ParseRaises
    \/ OpenOutput
    \/ OpenOutputRaises
    \/ WriteRecord
    \/ WriteRaises
    \/ FinishTrim

\* --------------------------------------------------------------- rmdup.py
\* File names, as their parts: a part is a '.' or text without a '.'.
Names ==
    {<<"x", ".", "fasta">>, <<"y", ".", "fasta">>,
     <<"x", ".", "txt">>, <<".", "fasta">>}

\* Directories under the input directory, in the order os.walk yields them.
Dirs == 1..MaxDirs

DirTrees ==
    {t \in SUBSET [dir : Dirs, name : Names] : Cardinality(t) <= MaxFiles}

\* file.endswith(suffix)
EndsWith(name, suffix) ==
    /\ Len(name) >= Len(suffix)
    /\ SubSeq(name, Len(name) - Len(suffix) + 1, Len(name)) = suffix

IsFasta(name) == EndsWith(name, <<".", "fasta">>)

\* os.path.splitext(name)[0]: the name up to its last '.', unless only
\* '.' precede that one.
SplitExtBase(name) ==
    LET dots == {i \in 1..Len(name) : name[i] = "."}
    IN  IF dots # {} /\ \E k \in 1..(Max(dots) - 1) : name[k] # "."
        THEN SubSeq(name, 1, Max(dots) - 1)
        ELSE name

\* os.path.join(output_dir, f"{base_filename}.rmdup.fasta")
OutputFile(name) == SplitExtBase(name) \o <<".", "rmdup", ".", "fasta">>

\* Faulty variant of AfterCall: the exit code is not checked (check=False).
AfterCallUnchecked(returncode, next) == next

\* subprocess.run(..., check=True): where the run goes after the call.
AfterCall(returncode, next) == IF returncode = 0 THEN next ELSE "raised"

\* run_seqkit_rmdup(f, OutputFile(f.name)) with the tool exiting returncode.
RunSeqkitRmdup(f, returncode, next) ==
    LET o == OutputFile(f.name)
    IN  /\ out_files' = {x \in out_files : x.path # o}
                           \cup {[path |-> o, src |-> f]}
        /\ calls' = Append(calls, [input_file |-> f, output_file |-> o,
                                   returncode |-> returncode])
        /\ rd_pc' = AfterCall(returncode, next)

InitRD ==
    /\ rd_pc = "main"
    /\ input_kind \in {"file", "dir", "none"}
    /\ tree \in IF input_kind = "dir" THEN DirTrees
                ELSE IF input_kind = "file"
                     THEN {{[dir |-> 1, name |-> n]} : n \in Names}
                     ELSE {{}}
    /\ cur_dir = 1
    /\ visited = {}
    /\ calls = <<>>
    /\ out_dir_exists = FALSE
    /\ out_files = {}
    /\ rd_msg = ""

\* __main__, line 53: os.makedirs(args.output, exist_ok=True)
MakeOutputDir ==
    /\ UNCHANGED otherRD
    /\ rd_pc = "main"
    /\ out_dir_exists' = TRUE
    /\ rd_pc' = "remove_duplicates"
    /\ UNCHANGED <<input_kind, tree, cur_dir, visited, calls, out_files, rd_msg>>

\* remove_duplicates, lines 13-17: input_path is a file.
ProcessSingleFile ==
    /\ UNCHANGED otherRD
    /\ rd_pc = "remove_duplicates"
    /\ input_kind = "file"
    /\ \E f \in tree : \E rc \in {0, 1} :
          /\ RunSeqkitRmdup(f, rc, "done")
          /\ visited' = visited \cup {f}
    /\ UNCHANGED <<input_kind, tree, cur_dir, out_dir_exists, rd_msg>>

\* remove_duplicates, lines 18-20: input_path is a directory.
StartWalk ==
    /\ UNCHANGED otherRD
    /\ rd_pc = "remove_duplicates"
    /\ input_kind = "dir"
    /\ rd_pc' = "walking"
    /\ UNCHANGED <<input_kind, tree, cur_dir, visited, calls, out_dir_exists,
                   out_files, rd_msg>>

\* remove_duplicates, lines 27-28: input_path is neither.
InvalidPath ==
    /\ UNCHANGED otherRD
    /\ rd_pc = "remove_duplicates"
    /\ input_kind = "none"
    /\ rd_msg' = "Error: not a valid file or directory."
    /\ rd_pc' = "done"
    /\ UNCHANGED <<input_kind, tree, cur_dir, visited, calls, out_dir_exists,
                   out_files>>

\* remove_duplicates, lines 21-26: the next file of the directory, in the
\* order the listing gives; a '.fasta' file is handed to the tool.
VisitFastaFile ==
    /\ UNCHANGED otherRD
    /\ rd_pc = "walking"
    /\ \E f \in tree \ visited : \E rc \in {0, 1} :
          /\ f.dir = cur_dir
          /\ IsFasta(f.name)
          /\ RunSeqkitRmdup(f, rc, "walking")
          /\ visited' = visited \cup {f}
    /\ UNCHANGED <<input_kind, tree, cur_dir, out_dir_exists, rd_msg>>

\* remove_duplicates, lines 21-22: a file without the suffix is passed over.
VisitOtherFile ==
    /\ UNCHANGED otherRD
    /\ rd_pc = "walking"
    /\ \E f \in tree \ visited :
          /\ f.dir = cur_dir
          /\ ~IsFasta(f.name)
          /\ visited' = visited \cup {f}
    /\ UNCHANGED <<rd_pc, input_kind, tree, cur_dir, calls, out_dir_exists,
                   out_files, rd_msg>>

\* remove_duplicates, line 20: os.walk moves to the next directory.
NextDir ==
    /\ UNCHANGED otherRD
    /\ rd_pc = "walking"
    /\ \A f \in tree : f.dir = cur_dir => f \in visited
    /\ cur_dir < MaxDirs
    /\ cur_dir' = cur_dir + 1
    /\ UNCHANGED <<rd_pc, input_kind, tree, visited, calls, out_dir_exists,
                   out_files, rd_msg>>

\* remove_duplicates, line 20: os.walk is exhausted.
EndWalk ==
    /\ UNCHANGED otherRD
    /\ rd_pc = "walking"
    /\ \A f \in tree : f.dir = cur_dir => f \in visited
    /\ cur_dir = MaxDirs
    /\ rd_pc' = "done"
    /\ UNCHANGED <<input_kind, tree, cur_dir, visited, calls, out_dir_exists,
                   out_files, rd_msg>>

NextRD ==
    \/ MakeOutputDir
    \/ ProcessSingleFile
    \/ StartWalk
    \/ InvalidPath
    \/ VisitFastaFile
    \/ VisitOtherFile
    \/ NextDir
    \/ EndWalk

\* ------------------------------------------------------- specifications
\* A utility that is not the one being run: its state stays as constructed.
IdleHS ==
    /\ hs_pc = "idle"
    /\ original_headers = <<>>
    /\ split_headers = <<>>
    /\ original_header = <<>>
    /\ match = NoMatch
    /\ column_names = <<>>
    /\ tsv = <<>>
    /\ hs_exc = ""

IdleXR ==
    /\ xr_pc = "idle"
    /\ records_read = 0
    /\ seqid_segment = <<>>
    /\ seqid = <<>>
    /\ fasta_ids = {}
    /\ metadata_df = <<>>
    /\ metadata_ids = {}
    /\ output_metadata_file = FALSE
    /\ output_dir = FALSE
    /\ printed = <<>>
    /\ filtered_metadata = [written |-> FALSE, rows |-> <<>>]
    /\ dir_files = NoFiles
    /\ xr_exc = ""

IdleTR ==
    /\ tr_pc = "idle"
    /\ input_exists = FALSE
    /\ start_position = 0
    /\ stop_position = 0
    /\ records = <<>>
    /\ trimmed_records = <<>>
    /\ out_file = Untouched
    /\ tr_msg = ""

IdleRD ==
    /\ rd_pc = "idle"
    /\ input_kind = "none"
    /\ tree = {}
    /\ cur_dir = 1
    /\ visited = {}
    /\ calls = <<>>
    /\ out_dir_exists = FALSE
    /\ out_files = {}
    /\ rd_msg = ""

InitRunHS == InitHS /\ IdleXR /\ IdleTR /\ IdleRD

InitRunXR == IdleHS /\ InitXR /\ IdleTR /\ IdleRD

InitRunTR == IdleHS /\ IdleXR /\ InitTR /\ IdleRD

InitRunRD == IdleHS /\ IdleXR /\ IdleTR /\ InitRD

SpecHS == InitRunHS /\ [][NextHS]_vars

SpecXR == InitRunXR /\ [][NextXR]_vars

SpecTR == InitRunTR /\ [][NextTR]_vars

SpecRD == InitRunRD /\ [][NextRD]_vars

\* ------------------------------------------------ claims: Header Splitter
HasToken(h) == ReSearch(h).found

FieldsOf(h) == Split(ReSearch(h).group1, "/")

\* The rows the output should hold: one per header with a token, in input
\* order, each with that header's own fields, padded to the longest.
ExpectedRows(oh) ==
    LET kept == SelectSeq(oh, HasToken)
        m    == Max({Len(FieldsOf(kept[i])) : i \in 1..Len(kept)})
    IN  [i \in 1..Len(kept) |->
            <<kept[i]>> \o FieldsOf(kept[i]) \o Blanks(m - Len(FieldsOf(kept[i])))]

\* C1: the data rows of the output are, in input order, one row per header
\* with a '|'-bounded token, each row being that header's text followed by
\* that header's own fields, right-padded to the maximum field count.
C1_RowsBelongToTheirHeader ==
    hs_pc = "written" => Tail(tsv) = ExpectedRows(original_headers)

\* C6: the header row is 'OriginalHeader', then the first min(n, m) user
\* names, then Part(n+1) .. Part(m); it has m + 1 columns, like every data
\* row.
C6_HeaderRowNames ==
    hs_pc = "written" =>
        LET m   == MaxColumns(split_headers)
            n   == Len(column_names)
            row == tsv[1]
        IN  /\ m >= 1
            /\ Len(row) = m + 1
            /\ row[1] = "OriginalHeader"
            /\ \A k \in 1..m :
                  row[k + 1] = IF k <= n THEN column_names[k] ELSE PartName(k)
            /\ \A r \in 2..Len(tsv) : Len(tsv[r]) = m + 1

\* A written table whose user names run out before the columns do, and whose
\* records differ in their number of fields.
C6_Witness ==
    /\ hs_pc = "written"
    /\ Len(column_names) < MaxColumns(split_headers)
    /\ \E i \in 1..Len(split_headers) :
          Len(split_headers[i]) < MaxColumns(split_headers)

PipePositions(h) == {i \in 1..Len(h) : h[i] = "|"}

\* C7: for the header last read, if it holds '|' at least twice the token is
\* the text between the first and the second '|'; otherwise there is none.
C7_TokenBetweenFirstTwoDelimiters ==
    LET P  == PipePositions(original_header)
        p1 == Min(P)
        p2 == Min(P \ {p1})
    IN  IF Cardinality(P) >= 2
        THEN /\ match.found
             /\ match.group1 = SubSeq(original_header, p1 + 1, p2 - 1)
        ELSE ~match.found

\* C8: a run that retained no record ends in a named 'no records found'
\* failure.
C8_NoRecordsFoundIsNamed ==
    (hs_pc # "reading" /\ split_headers = <<>>) => hs_exc = "NoRecordsFound"

\* ---------------------------------------------- claims: Cross-Referencer
\* The text of id before its first '_' (all of it when there is none).
BeforeFirstUnderscore(id) ==
    LET U == {i \in 1..Len(id) : id[i] = "_"}
    IN  IF U = {} THEN id ELSE SubSeq(id, 1, Min(U) - 1)

\* C2: every record adds its identifier truncated at the first '_' to F, and
\* the five numbers reported are |F|, |M|, |F n M|, |F \ M|, |M \ F| in this
\* order, whatever outputs are requested; so |F| = |F n M| + |F \ M| and
\* |M| = |F n M| + |M \ F|.
C2_FiveCounts ==
    LET F == fasta_ids
        M == {metadata_df[i].seqid : i \in 1..Len(metadata_df)}
    IN  /\ (xr_pc = "parse_fasta" /\ records_read > 0) =>
              /\ seqid = BeforeFirstUnderscore(seqid_segment)
              /\ seqid \in F
        /\ xr_pc \in {"counted", "done"} =>
              /\ Len(printed) = 5
              /\ printed[1] = Cardinality(F)
              /\ printed[2] = Cardinality(M)
              /\ printed[3] = Cardinality(F \cap M)
              /\ printed[4] = Cardinality(F \ M)
              /\ printed[5] = Cardinality(M \ F)
              /\ printed[1] = printed[3] + printed[4]
              /\ printed[2] = printed[3] + printed[5]

\* A finished run without -o and -d whose two differences differ in size.
C2_Witness ==
    /\ xr_pc = "done"
    /\ ~output_metadata_file
    /\ ~output_dir
    /\ printed[3] > 0
    /\ printed[4] > 0
    /\ printed[5] > printed[4]

\* C5: the filtered table holds exactly the rows of the metadata table whose
\* seqid is a sequence-file identifier, rows with a repeated seqid included,
\* in the order of the original table.
C5_FilteredRows ==
    filtered_metadata.written =>
        LET f == filtered_metadata.rows
        IN  /\ \A i \in 1..Len(metadata_df) :
                  (metadata_df[i].seqid \in fasta_ids)
                      <=> (\E k \in 1..Len(f) : f[k] = metadata_df[i])
            /\ \A k \in 1..Len(f) :
                  \E i \in 1..Len(metadata_df) : f[k] = metadata_df[i]
            /\ \A j, k \in 1..Len(f) : j < k => f[j].index < f[k].index

\* A filtered table that keeps two rows of one seqid and drops a row.
C5_Witness ==
    /\ filtered_metadata.written
    /\ Len(filtered_metadata.rows) < Len(metadata_df)
    /\ \E j, k \in 1..Len(filtered_metadata.rows) :
          /\ j < k
          /\ filtered_metadata.rows[j].seqid = filtered_metadata.rows[k].seqid

\* ------------------------------------------------------ claims: Trimmer
\* The residues of s at zero-based positions start .. min(stop, L) - 1.
Window(s, start, stop) ==
    LET hi == Min({stop, Len(s)})
    IN  [k \in 1..(hi - start) |-> s[start + k]]

\* C3: with start >= 0 and stop >= 0 every output record holds the input
\* residues at positions start .. min(stop, L) - 1; the output has as many
\* records as the input, in the same order; start = 0 and stop = L changes
\* nothing.
C3_TrimWindow ==
    (start_position >= 0 /\ stop_position >= 0) =>
        /\ Len(trimmed_records) = Len(records)
        /\ \A i \in 1..Len(records) :
              /\ trimmed_records[i].id = records[i].id
              /\ trimmed_records[i].seq =
                    Window(records[i].seq, start_position, stop_position)
              /\ (start_position = 0 /\ stop_position = Len(records[i].seq))
                    => trimmed_records[i].seq = records[i].seq
        /\ tr_pc = "done" => out_file = [touched |-> TRUE, recs |-> trimmed_records]

\* A finished run of two records with a window that starts inside a record
\* and stops beyond its end.
C3_Witness ==
    /\ tr_pc = "done"
    /\ Len(records) = 2
    /\ start_position > 0
    /\ \E i \in 1..Len(records) :
          /\ start_position < Len(records[i].seq)
          /\ stop_position > Len(records[i].seq)

\* C9: a run that ends on an error path has printed a message, and the output
\* path holds either all the trimmed records or what it held before the run.
C9_NoPartialOutput ==
    tr_pc = "failed" =>
        /\ tr_msg # ""
        /\ \/ out_file = Untouched
           \/ out_file = [touched |-> TRUE, recs |-> trimmed_records]

\* --------------------------------------------- claims: Duplicate Remover
FastaFiles == {f \in tree : IsFasta(f.name)}

\* C4: after a directory run in which every call succeeded, every '.fasta'
\* file under the input directory has its own output file, no two share one,
\* and no other file has one.
C4_OneOutputPerFastaFile ==
    (rd_pc = "done" /\ input_kind = "dir") =>
        /\ \A f \in FastaFiles : \E o \in out_files : o.src = f
        /\ \A o \in out_files : o.src \in FastaFiles
        /\ Cardinality(out_files) = Cardinality(FastaFiles)

\* C10: calls are made one file at a time; a call that exits non-zero is the
\* last one and the run has failed; every output file belongs to a file that
\* was handed to the tool; an input path that is neither a file nor a
\* directory gets its own message, no call and no output file.
C10_HaltsOnFirstFailure ==
    /\ \A i \in 1..Len(calls) :
          calls[i].returncode # 0 => (i = Len(calls) /\ rd_pc = "raised")
    /\ rd_pc = "raised" =>
          /\ calls # <<>>
          /\ calls[Len(calls)].returncode # 0
          /\ rd_msg = ""
    /\ \A o \in out_files :
          \E i \in 1..Len(calls) :
              calls[i].input_file = o.src /\ calls[i].output_file = o.path
    /\ {calls[i].input_file : i \in 1..Len(calls)} = visited \cap
          (IF input_kind = "dir" THEN FastaFiles ELSE tree)
    /\ input_kind = "none" =>
          /\ calls = <<>>
          /\ out_files = {}
          /\ rd_pc \notin {"raised", "walking"}
          /\ rd_pc = "done" => rd_msg = "Error: not a valid file or directory."

\* A directory run that failed on one '.fasta' file while another was still
\* to come.
C10_Witness ==
    /\ rd_pc = "raised"
    /\ input_kind = "dir"
    /\ \E f \in FastaFiles : f \notin visited

\* The invalid-path case of C10 is reached as well.
C10_InvalidPathReached ==
    /\ input_kind = "none"
    /\ rd_pc = "done"

====
